---- MODULE Spec2Model ----
(***************************************************************************)
(* Model of the AI project generator (main.go): DevAgent.GenerateCode,     *)
(* its output sanitizers and the Go library string/path helpers it calls.  *)
(*                                                                         *)
(* A Go string is the sequence of its bytes (ASCII codes), so that prefix   *)
(* trimming, white-space trimming, the byte-wise order of sort.Strings and *)
(* path cleaning are computed the way the code computes them.              *)
(***************************************************************************)
EXTENDS Integers, Sequences, FiniteSets, TLC

VARIABLES
    spec,            \* the *ProjectSpec handed to GenerateCode
    pc,              \* position inside GenerateCode
    projectDir,      \* main.go:117
    filePaths,       \* main.go:127-131, the sorted keys of spec.Files
    k,               \* 1-based position of the range loop of main.go:133
    generatedFiles,  \* main.go:124, map[string]string
    resp,            \* content of the last successful service response
    fileContent,     \* main.go:182-193
    fullPath,        \* main.go:195
    err,             \* the error GenerateCode returns
    store,           \* the file system: cleaned path -> file content
    calls,           \* every CreateChatCompletion call issued, in order
    writes,          \* every os.WriteFile call issued, in order
    sanIn,           \* sanitizer harness: the raw input
    sanOnce,         \* sanitizer harness: the input sanitized once
    sanTwice,        \* sanitizer harness: the input sanitized twice
    sanCount,        \* sanitizer harness: number of applications so far
    mainPc,          \* position inside the loop of main (main.go:291-333)
    requests,        \* number of ReadString calls for a project description
    line,            \* the line last read as a project description
    input,           \* main.go:299, the trimmed line
    specResp,        \* content of the response to GenerateProjectSpec for
                     \* the current line, empty when there is none
    answer,          \* the line read as the confirmation for the current line
    confirm,         \* main.go:322, the trimmed and lower-cased answer
    synthCount,      \* GenerateProjectSpec calls made for the current line
    genCount,        \* GenerateCode calls made for the current line
    reported         \* the error main printed in the current iteration of
                     \* its loop, NoError when none

vars == <<spec, pc, projectDir, filePaths, k, generatedFiles, resp, fileContent,
          fullPath, err, store, calls, writes, sanIn, sanOnce, sanTwice, sanCount,
          mainPc, requests, line, input, specResp, answer, confirm, synthCount,
          genCount, reported>>

mainVars == <<mainPc, requests, line, input, specResp, answer, confirm, synthCount,
              genCount, reported>>

pipeVars == <<spec, pc, projectDir, filePaths, k, generatedFiles, resp, fileContent,
              fullPath, err, store, calls, writes>>

sanVars == <<sanIn, sanOnce, sanTwice, sanCount>>

----------------------------------------------------------------------------
(* Bounds *)

\* largest number of entries of spec.Files
MaxFiles == 3

\* longest raw string enumerated for the sanitizer
MaxLen == 4

----------------------------------------------------------------------------
(* Go strings *)

\* s[from:] with a 0-based byte offset, as in Go
SliceFrom(s, from) == SubSeq(s, from + 1, Len(s))

\* s[:to] with a 0-based byte offset, as in Go
SliceTo(s, to) == SubSeq(s, 1, to)

\* strings.HasPrefix
HasPrefix(s, p) == Len(s) >= Len(p) /\ SubSeq(s, 1, Len(p)) = p

\* strings.HasSuffix
HasSuffix(s, p) == Len(s) >= Len(p) /\ SubSeq(s, Len(s) - Len(p) + 1, Len(s)) = p

\* strings.TrimPrefix: removes one occurrence of the prefix, if present
TrimPrefix(s, p) == IF HasPrefix(s, p) THEN SliceFrom(s, Len(p)) ELSE s

\* strings.TrimSuffix: removes one occurrence of the suffix, if present
TrimSuffix(s, p) == IF HasSuffix(s, p) THEN SliceTo(s, Len(s) - Len(p)) ELSE s

\* unicode.IsSpace on ASCII: tab, newline, vertical tab, form feed, carriage
\* return and space
IsSpace(c) == c \in {9, 10, 11, 12, 13, 32}

\* strings.TrimSpace: drops every leading and every trailing white space
TrimSpace(s) ==
    LET keep == {j \in 1..Len(s) : ~IsSpace(s[j])}
        Min(S) == CHOOSE x \in S : \A y \in S : x <= y
        Max(S) == CHOOSE x \in S : \A y \in S : x >= y
    IN  IF keep = {} THEN <<>> ELSE SubSeq(s, Min(keep), Max(keep))

\* strings.Index(s, c) for a one-byte c: 0-based offset of the first
\* occurrence, -1 when there is none
Index(s, c) ==
    LET hits == {j \in 1..Len(s) : s[j] = c}
    IN  IF hits = {} THEN -1 ELSE (CHOOSE x \in hits : \A y \in hits : x <= y) - 1

\* strings.Contains(s, c) for a one-byte c
Contains(s, c) == \E j \in 1..Len(s) : s[j] = c

\* the markdown fence: three backquotes (byte 96)
Fence == <<96, 96, 96>>

----------------------------------------------------------------------------
(* Output sanitizers *)

\* main.go:184-186: strip one leading and one trailing fence, then trim
StripFences(raw) == TrimSpace(TrimSuffix(TrimPrefix(raw, Fence), Fence))

\* the language identifier left in place
KeepLanguageTag(s) == s

\* main.go:189-193: a first line holding neither "=" (61) nor ":" (58) is
\* taken for a language identifier and dropped with its newline (10)
DropLanguageTag(s) ==
    LET idx == Index(s, 10)
    IN  IF idx # -1 /\ ~Contains(SliceTo(s, idx), 61) /\ ~Contains(SliceTo(s, idx), 58)
        THEN SliceFrom(s, idx + 1)
        ELSE s

\* main.go:182-193: the per-file sanitization of a service response
SanitizeCode(raw) == DropLanguageTag(StripFences(raw))

\* the fence openers the README sanitizer knows: three backquotes followed by
\* "markdown", and by "md"
FenceMarkdown == Fence \o <<109, 97, 114, 107, 100, 111, 119, 110>>
FenceMd == Fence \o <<109, 100>>

\* main.go:253-258: the README sanitization of a service response
SanitizeReadme(raw) ==
    TrimSpace(TrimSuffix(TrimPrefix(TrimPrefix(raw, FenceMarkdown), FenceMd), Fence))

----------------------------------------------------------------------------
(* Sanitizer harness: the per-file sanitizer applied once and twice to a    *)
(* raw response drawn from a bounded set                                    *)

\* the bytes raw strings are enumerated over: backquote, newline, space, "a"
\* and ":"
SanAlphabet == {96, 10, 32, 97, 58}

\* every string over SanAlphabet of at most MaxLen bytes
SanStrings == UNION {[1..n -> SanAlphabet] : n \in 0..MaxLen}

\* language tags "json" and "go"
TagJson == <<106, 115, 111, 110>>
TagGo == <<103, 111>>
FenceTags == {TagJson, TagGo}

\* bodies: {"a":1} and x=1 and y
JsonBody == <<123, 34, 97, 34, 58, 49, 125>>
AssignBody == <<120, 61, 49>>
WordBody == <<121>>
FenceBodies == {JsonBody, AssignBody, WordBody}

\* fence opener with a tag, newline, body, newline, fence closer
Fenced(tag, body) == Fence \o tag \o <<10>> \o body \o <<10>> \o Fence

FencedExamples == {Fenced(tag, body) : tag \in FenceTags, body \in FenceBodies}

\* a fenced block preceded by a newline, followed by a newline, and set
\* between a space and a newline
PaddedExamples ==
    UNION {{<<10>> \o f, f \o <<10>>, <<32>> \o f \o <<10>>} : f \in FencedExamples}

SanInputs == SanStrings \cup FencedExamples \cup PaddedExamples

----------------------------------------------------------------------------
(* Ordering and paths *)

\* Go's < on strings: byte-wise lexicographic, a proper prefix being smaller
StrLess(s, t) ==
    LET n == IF Len(s) < Len(t) THEN Len(s) ELSE Len(t)
        diff == {j \in 1..n : s[j] # t[j]}
        first == CHOOSE x \in diff : \A y \in diff : x <= y
    IN  IF diff = {} THEN Len(s) < Len(t) ELSE s[first] < t[first]

\* a mis-ordered sort: descending instead of ascending
RECURSIVE SortStringsDescending(_)
SortStringsDescending(S) ==
    IF S = {} THEN <<>>
    ELSE LET m == CHOOSE x \in S : \A y \in S \ {x} : StrLess(y, x)
         IN  <<m>> \o SortStringsDescending(S \ {m})

\* main.go:127-131: the keys of a map collected and passed to sort.Strings,
\* which leaves them ascending in Go's string order
RECURSIVE SortStrings(_)
SortStrings(S) ==
    IF S = {} THEN <<>>
    ELSE LET m == CHOOSE x \in S : \A y \in S \ {x} : StrLess(x, y)
         IN  <<m>> \o SortStrings(S \ {m})

\* strings.Split(s, "/") (byte 47)
RECURSIVE SplitSlash(_)
SplitSlash(s) ==
    LET idx == Index(s, 47)
    IN  IF idx = -1 THEN <<s>>
        ELSE <<SliceTo(s, idx)>> \o SplitSlash(SliceFrom(s, idx + 1))

\* the path elements "." and ".."
Dot == <<46>>
DotDot == <<46, 46>>

\* filepath.Clean on the elements of a relative path: empty elements and "."
\* are dropped, ".." removes the element before it, and is kept when there
\* is none to remove
RECURSIVE CleanElems(_, _)
CleanElems(elems, acc) ==
    IF elems = <<>> THEN acc
    ELSE LET e == Head(elems)
             next == IF e = <<>> \/ e = Dot THEN acc
                     ELSE IF e = DotDot
                          THEN IF acc # <<>> /\ acc[Len(acc)] # DotDot
                               THEN SubSeq(acc, 1, Len(acc) - 1)
                               ELSE Append(acc, e)
                          ELSE Append(acc, e)
         IN  CleanElems(Tail(elems), next)

\* strings.Join(elems, "/")
RECURSIVE JoinSlash(_)
JoinSlash(elems) ==
    IF elems = <<>> THEN <<>>
    ELSE IF Len(elems) = 1 THEN elems[1]
    ELSE elems[1] \o <<47>> \o JoinSlash(Tail(elems))

\* filepath.Clean of a relative path; the empty result is "."
Clean(path) ==
    LET kept == CleanElems(SplitSlash(path), <<>>)
    IN  IF kept = <<>> THEN Dot ELSE JoinSlash(kept)

\* filepath.Join(dir, file) as called at main.go:195 and main.go:260: the
\* non-empty arguments joined by "/" and cleaned
Join(dir, file) ==
    IF dir = <<>> /\ file = <<>> THEN <<>>
    ELSE IF dir = <<>> THEN Clean(file)
    ELSE IF file = <<>> THEN Clean(dir)
    ELSE Clean(dir \o <<47>> \o file)

----------------------------------------------------------------------------
(* Maps *)

\* the empty map of make(map[string]string)
EmptyMap == <<>>

\* m[key] = value
MapPut(m, key, value) == (key :> value) @@ m

\* the orders in which a range loop may visit the keys of map m: Go leaves
\* the iteration order of a map unspecified
MapOrders(m) ==
    LET n == Cardinality(DOMAIN m)
    IN  {o \in [1..n -> DOMAIN m] : \A x, y \in 1..n : x # y => o[x] # o[y]}

----------------------------------------------------------------------------
(* The inputs of GenerateCode *)

\* artifact keys: a.txt, b.txt, ../x and README.md
PathA == <<97, 46, 116, 120, 116>>
PathB == <<98, 46, 116, 120, 116>>
PathEscape == <<46, 46, 47, 120>>
PathReadme == <<82, 69, 65, 68, 77, 69, 46, 109, 100>>
PathUniverse == {PathA, PathB, PathEscape, PathReadme}

\* the file descriptions the synthesized specification may carry
Descs == {"desc A"}

\* the project name: proj
ProjectName == <<112, 114, 111, 106>>

\* the ProjectSpec values GenerateCode is run on (main.go:17-24)
ProjectSpecs ==
    {[Name |-> ProjectName, Type |-> "cli", Framework |-> "cobra",
      Components |-> <<"cmd">>, Files |-> f, Description |-> "demo"] :
        f \in UNION {[S -> Descs] :
                        S \in {T \in SUBSET PathUniverse : Cardinality(T) <= MaxFiles}}}

\* raw service responses for a file: x=1 and a fenced block tagged go
\* holding y
CodeResponses == {AssignBody, Fenced(TagGo, WordBody)}

\* raw service responses for the README: "# T" bare, and fenced as markdown
ReadmeBody == <<35, 32, 84>>
ReadmeResponses == {ReadmeBody, FenceMarkdown \o <<10>> \o ReadmeBody \o <<10>> \o Fence}

----------------------------------------------------------------------------
(* Prompts, errors and logs *)

\* the block of previously generated files holding the raw map keys only,
\* the contents left out
ContextBlockNoContent(order, gf) ==
    [j \in 1..Len(order) |-> [path |-> order[j], content |-> <<>>]]

\* main.go:139-144: the block of previously generated files, one entry per
\* key in the order the range loop over the map visits them
ContextBlock(order, gf) ==
    [j \in 1..Len(order) |-> [path |-> order[j], content |-> gf[order[j]]]]

\* main.go:146-158: the prompt for one file
CodePrompt(sp, filePath, context) ==
    [file |-> filePath, project |-> sp.Name, description |-> sp.Description,
     purpose |-> sp.Files[filePath], framework |-> sp.Framework,
     context |-> context]

\* the project structure block with the last visited file left out
ReadmeStructureShort(order, gf) ==
    [j \in 1..(Len(order) - 1) |-> [path |-> order[j], content |-> gf[order[j]]]]

\* main.go:211-214: the project structure block of the README prompt
ReadmeStructure(order, gf) ==
    [j \in 1..Len(order) |-> [path |-> order[j], content |-> gf[order[j]]]]

\* main.go:216-229: the README prompt
ReadmePrompt(sp, structure) ==
    [project |-> sp.Name, description |-> sp.Description,
     framework |-> sp.Framework, components |-> sp.Components,
     structure |-> structure]

\* the nil error
NoError == [kind |-> "nil", path |-> <<>>]

\* fmt.Errorf of main.go:120, 179, 198, 206, 250 and 262: what failed, and
\* the file path the message names (empty when it names none)
Errorf(kind, path) == [kind |-> kind, path |-> path]

\* one CreateChatCompletion call: which stage issued it, for which file, with
\* which prompt, whether it succeeded and what it returned
Call(kind, path, prompt, ok, content) ==
    [kind |-> kind, path |-> path, prompt |-> prompt, ok |-> ok, content |-> content]

\* one os.WriteFile call: which stage issued it, for which key, on which
\* path, with which content and whether it succeeded
Write(kind, path, full, content, ok) ==
    [kind |-> kind, path |-> path, full |-> full, content |-> content, ok |-> ok]

\* the name under which the README is written (main.go:260)
ReadmeName == <<82, 69, 65, 68, 77, 69, 46, 109, 100>>

----------------------------------------------------------------------------
(* GenerateCode, main.go:111-267 *)

\* the map of an earlier call kept instead of a new one
KeptGeneratedFiles == generatedFiles

\* main.go:124: generatedFiles := make(map[string]string)
NewGeneratedFiles == EmptyMap

\* main.go:116-131: create the project directory, make the map, sort the keys.
\* os.MkdirAll may fail on any path, and always fails on the empty path.
Start ==
    /\ pc = "start"
    /\ projectDir' = spec.Name
    /\ \/ /\ pc' = "done"
          /\ err' = Errorf("create project directory", <<>>)
          /\ UNCHANGED <<filePaths, k, generatedFiles>>
       \/ /\ spec.Name # <<>>
          /\ generatedFiles' = NewGeneratedFiles
          /\ filePaths' = SortStrings(DOMAIN spec.Files)
          /\ k' = 1
          /\ pc' = "loop"
          /\ UNCHANGED err
    /\ UNCHANGED <<spec, resp, fileContent, fullPath, store, calls, writes, sanVars, mainVars>>

\* the error of the service call swallowed: the loop goes on to the next file
GenerateFailedContinue(filePath) ==
    /\ pc' = "loop"
    /\ k' = k + 1
    /\ UNCHANGED <<err, resp>>

\* the failed service call retried: the loop stays on the same file
GenerateFailedRetry(filePath) ==
    /\ pc' = "loop"
    /\ UNCHANGED <<k, err, resp>>

\* main.go:178-180 taken: the error is returned
GenerateFailed(filePath) ==
    /\ pc' = "done"
    /\ err' = Errorf("generate code", filePath)
    /\ UNCHANGED <<k, resp>>

\* main.go:133-182: build the prompt for the next file and call the service
GenerateFile ==
    /\ pc = "loop"
    /\ k <= Len(filePaths)
    /\ LET filePath == filePaths[k]
       IN  \E order \in MapOrders(generatedFiles) :
             LET prompt == CodePrompt(spec, filePath, ContextBlock(order, generatedFiles))
             IN  \/ /\ calls' = Append(calls, Call("code", filePath, prompt, FALSE, <<>>))
                    /\ GenerateFailed(filePath)
                 \/ \E r \in CodeResponses :
                      /\ calls' = Append(calls, Call("code", filePath, prompt, TRUE, r))
                      /\ resp' = r
                      /\ pc' = "sanitize"
                      /\ UNCHANGED <<k, err>>
    /\ UNCHANGED <<spec, projectDir, filePaths, generatedFiles, fileContent, fullPath,
                   store, writes, sanVars, mainVars>>

\* main.go:197-199 taken: the error is returned
MkdirFailed(filePath) ==
    /\ pc' = "done"
    /\ err' = Errorf("create directories", filePath)

\* main.go:182-199: sanitize the response, join the path, create directories
PrepareFile ==
    /\ pc = "sanitize"
    /\ fileContent' = SanitizeCode(resp)
    /\ fullPath' = Join(projectDir, filePaths[k])
    /\ \/ MkdirFailed(filePaths[k])
       \/ /\ pc' = "write"
          /\ UNCHANGED err
    /\ UNCHANGED <<spec, projectDir, filePaths, k, generatedFiles, resp, store, calls,
                   writes, sanVars, mainVars>>

\* the content recorded in a fresh map, the earlier entries lost
RecordGeneratedFresh(gf, filePath, content) == MapPut(EmptyMap, filePath, content)

\* main.go:202: generatedFiles[filePath] = fileContent
RecordGenerated(gf, filePath, content) == MapPut(gf, filePath, content)

\* the error of the write swallowed: the loop goes on to the next file
WriteFailedContinue(filePath) ==
    /\ pc' = "loop"
    /\ k' = k + 1
    /\ UNCHANGED err

\* main.go:205-207 taken: the error is returned
WriteFailed(filePath) ==
    /\ pc' = "done"
    /\ err' = Errorf("write file", filePath)
    /\ UNCHANGED k

\* main.go:201-208: record the content, write the file, go to the next key.
\* os.WriteFile opens the file with O_CREATE|O_TRUNC and then writes: when it
\* fails the file is either untouched (the open failed) or left truncated
\* (the write failed).
WriteFileStep ==
    /\ pc = "write"
    /\ generatedFiles' = RecordGenerated(generatedFiles, filePaths[k], fileContent)
    /\ \/ /\ store' = MapPut(store, fullPath, fileContent)
          /\ writes' = Append(writes, Write("file", filePaths[k], fullPath, fileContent, TRUE))
          /\ k' = k + 1
          /\ pc' = "loop"
          /\ UNCHANGED err
       \/ /\ store' \in {store, MapPut(store, fullPath, <<>>)}
          /\ writes' = Append(writes, Write("file", filePaths[k], fullPath, fileContent, FALSE))
          /\ WriteFailed(filePaths[k])
    /\ UNCHANGED <<spec, projectDir, filePaths, resp, fileContent, fullPath, calls, sanVars, mainVars>>

\* main.go:249-251 taken: the error is returned
ReadmeFailed ==
    /\ pc' = "done"
    /\ err' = Errorf("generate README", <<>>)
    /\ UNCHANGED resp

\* main.go:210-253: after the loop, build the README prompt and call the service
GenerateReadme ==
    /\ pc = "loop"
    /\ k > Len(filePaths)
    /\ \E order \in MapOrders(generatedFiles) :
         LET prompt == ReadmePrompt(spec, ReadmeStructure(order, generatedFiles))
         IN  \/ /\ calls' = Append(calls, Call("readme", <<>>, prompt, FALSE, <<>>))
                /\ ReadmeFailed
             \/ \E r \in ReadmeResponses :
                  /\ calls' = Append(calls, Call("readme", <<>>, prompt, TRUE, r))
                  /\ resp' = r
                  /\ pc' = "readme"
                  /\ UNCHANGED err
    /\ UNCHANGED <<spec, projectDir, filePaths, k, generatedFiles, fileContent, fullPath,
                   store, writes, sanVars, mainVars>>

\* main.go:253-267: sanitize the README, write it, return
WriteReadme ==
    /\ pc = "readme"
    /\ LET readmeContent == SanitizeReadme(resp)
           readmePath == Join(projectDir, ReadmeName)
       IN  \/ /\ store' = MapPut(store, readmePath, readmeContent)
              /\ writes' = Append(writes, Write("readme", ReadmeName, readmePath, readmeContent, TRUE))
              /\ err' = NoError
           \/ /\ store' \in {store, MapPut(store, readmePath, <<>>)}
              /\ writes' = Append(writes, Write("readme", ReadmeName, readmePath, readmeContent, FALSE))
              /\ err' = Errorf("write README", <<>>)
    /\ pc' = "done"
    /\ UNCHANGED <<spec, projectDir, filePaths, k, generatedFiles, resp, fileContent,
                   fullPath, calls, sanVars, mainVars>>

\* one call of GenerateCode on a ProjectSpec, on an empty file system
Init ==
    /\ spec \in ProjectSpecs
    /\ pc = "start"
    /\ projectDir = <<>>
    /\ filePaths = <<>>
    /\ k = 0
    /\ generatedFiles = EmptyMap
    /\ resp = <<>>
    /\ fileContent = <<>>
    /\ fullPath = <<>>
    /\ err = NoError
    /\ store = EmptyMap
    /\ calls = <<>>
    /\ writes = <<>>
    /\ sanIn = <<>>
    /\ sanOnce = <<>>
    /\ sanTwice = <<>>
    /\ sanCount = 0
    /\ mainPc = "none"
    /\ requests = 0
    /\ line = <<>>
    /\ input = <<>>
    /\ specResp = <<>>
    /\ answer = <<>>
    /\ confirm = <<>>
    /\ synthCount = 0
    /\ genCount = 0
    /\ reported = NoError

Next ==
    \/ Start
    \/ GenerateFile
    \/ PrepareFile
    \/ WriteFileStep
    \/ GenerateReadme
    \/ WriteReadme

Spec == Init /\ [][Next]_vars

----------------------------------------------------------------------------
(* The sanitizer applied to bounded inputs *)

\* the first application of main.go:182-193 to the raw input
SanitizeFirst ==
    /\ sanCount = 0
    /\ sanOnce' = SanitizeCode(sanIn)
    /\ sanCount' = 1
    /\ UNCHANGED <<sanIn, sanTwice, pipeVars, mainVars>>

\* the second application, to the result of the first
SanitizeSecond ==
    /\ sanCount = 1
    /\ sanTwice' = SanitizeCode(sanOnce)
    /\ sanCount' = 2
    /\ UNCHANGED <<sanIn, sanOnce, pipeVars, mainVars>>

InitSan ==
    /\ spec = [Name |-> ProjectName, Type |-> "cli", Framework |-> "cobra",
               Components |-> <<"cmd">>, Files |-> EmptyMap, Description |-> "demo"]
    /\ pc = "idle"
    /\ projectDir = <<>>
    /\ filePaths = <<>>
    /\ k = 0
    /\ generatedFiles = EmptyMap
    /\ resp = <<>>
    /\ fileContent = <<>>
    /\ fullPath = <<>>
    /\ err = NoError
    /\ store = EmptyMap
    /\ calls = <<>>
    /\ writes = <<>>
    /\ sanIn \in SanInputs
    /\ sanOnce = <<>>
    /\ sanTwice = <<>>
    /\ sanCount = 0
    /\ mainPc = "none"
    /\ requests = 0
    /\ line = <<>>
    /\ input = <<>>
    /\ specResp = <<>>
    /\ answer = <<>>
    /\ confirm = <<>>
    /\ synthCount = 0
    /\ genCount = 0
    /\ reported = NoError

NextSan == SanitizeFirst \/ SanitizeSecond

SpecSan == InitSan /\ [][NextSan]_vars

----------------------------------------------------------------------------
(* GenerateProjectSpec, main.go:38-109 *)

\* the fence opener GenerateProjectSpec knows: three backquotes and "json"
FenceJson == Fence \o TagJson

\* main.go:97-101: trim, strip the json fence opener and the fence closer,
\* trim again
CleanSpecResponse(content) ==
    TrimSpace(TrimSuffix(TrimPrefix(TrimSpace(content), FenceJson), Fence))

\* a complete specification document:
\* {"name":"proj","type":"cli","framework":"cobra","components":["cmd"],
\*  "files":{"a.txt":"desc A","b.txt":"desc A"},"description":"demo"}
DocFull ==
    <<123, 34, 110, 97, 109, 101, 34, 58, 34, 112, 114, 111, 106, 34, 44,
      34, 116, 121, 112, 101, 34, 58, 34, 99, 108, 105, 34, 44, 34, 102,
      114, 97, 109, 101, 119, 111, 114, 107, 34, 58, 34, 99, 111, 98, 114,
      97, 34, 44, 34, 99, 111, 109, 112, 111, 110, 101, 110, 116, 115, 34,
      58, 91, 34, 99, 109, 100, 34, 93, 44, 34, 102, 105, 108, 101, 115, 34,
      58, 123, 34, 97, 46, 116, 120, 116, 34, 58, 34, 100, 101, 115, 99, 32,
      65, 34, 44, 34, 98, 46, 116, 120, 116, 34, 58, 34, 100, 101, 115, 99,
      32, 65, 34, 125, 44, 34, 100, 101, 115, 99, 114, 105, 112, 116, 105,
      111, 110, 34, 58, 34, 100, 101, 109, 111, 34, 125>>

\* the document {} and the text oops
DocEmpty == <<123, 125>>
TextOops == <<111, 111, 112, 115>>

\* the ProjectSpec DocFull decodes to
SpecFull ==
    [Name |-> ProjectName, Type |-> "cli", Framework |-> "cobra",
     Components |-> <<"cmd">>, Files |-> (PathA :> "desc A") @@ (PathB :> "desc A"),
     Description |-> "demo"]

\* the zero ProjectSpec of main.go:96, which {} leaves as it is
SpecZero ==
    [Name |-> <<>>, Type |-> "", Framework |-> "", Components |-> <<>>,
     Files |-> EmptyMap, Description |-> ""]

\* main.go:103: json.Unmarshal into a ProjectSpec, on the texts the responses
\* below are cleaned to. DocFull and {} are JSON objects; every other such
\* text starts with a backquote or is the bare word oops, and is not JSON.
Unmarshal(text) ==
    IF text = DocFull THEN [ok |-> TRUE, spec |-> SpecFull]
    ELSE IF text = DocEmpty THEN [ok |-> TRUE, spec |-> SpecZero]
    ELSE [ok |-> FALSE, spec |-> SpecZero]

\* a document in a fence tagged json, and in a fence without a tag
FencedJson(docText) == FenceJson \o <<10>> \o docText \o <<10>> \o Fence
FencedPlain(docText) == Fence \o <<10>> \o docText \o <<10>> \o Fence

\* the responses of the service to the specification request
SpecResponses ==
    {DocFull, FencedJson(DocFull), FencedPlain(DocFull), DocEmpty, TextOops}

----------------------------------------------------------------------------
(* main, main.go:269-334 *)

\* largest number of lines read as project descriptions
MaxRequests == 2

\* the lines typed as project descriptions: exit, an empty line, and "app"
LineExit == <<101, 120, 105, 116, 10>>
LineEmpty == <<10>>
LineApp == <<97, 112, 112, 10>>
InputLines == {LineExit, LineEmpty, LineApp}

\* the lines typed as confirmations: y, Y, n and yes
AnswerLower == <<121, 10>>
AnswerUpper == <<32, 89, 32, 10>>
AnswerNo == <<110, 10>>
AnswerYes == <<121, 101, 115, 10>>
AnswerLines == {AnswerLower, AnswerUpper, AnswerNo, AnswerYes}

\* the word exit and the letter y
WordExit == <<101, 120, 105, 116>>
LetterY == <<121>>

\* strings.ToLower on ASCII: A-Z (65-90) become a-z
ToLower(s) == [j \in 1..Len(s) |-> IF s[j] >= 65 /\ s[j] <= 90 THEN s[j] + 32 ELSE s[j]]

\* main.go:291-306: read a line; a read error and an empty line go back to the
\* prompt, exit leaves the loop, any other line is a request
ReadLine ==
    /\ mainPc = "read"
    /\ requests < MaxRequests
    /\ requests' = requests + 1
    /\ specResp' = <<>>
    /\ answer' = <<>>
    /\ confirm' = <<>>
    /\ synthCount' = 0
    /\ genCount' = 0
    /\ \/ /\ reported' = Errorf("read input", <<>>)
          /\ line' = <<>>
          /\ input' = <<>>
          /\ UNCHANGED mainPc
       \/ \E l \in InputLines :
            /\ line' = l
            /\ input' = TrimSpace(l)
            /\ mainPc' = IF TrimSpace(l) = WordExit THEN "exited"
                         ELSE IF TrimSpace(l) = <<>> THEN "read"
                         ELSE "synth"
            /\ reported' = NoError
    /\ UNCHANGED <<pipeVars, sanVars>>

\* the failed synthesis tried again for the same line
SynthFailedRetry(e) ==
    /\ reported' = e
    /\ mainPc' = "synth"

\* main.go:310-313: the error of GenerateProjectSpec is printed and the loop
\* goes back to the prompt
SynthFailed(e) ==
    /\ reported' = e
    /\ mainPc' = "read"

\* main.go:309-313 with GenerateProjectSpec (main.go:74-108): call the service,
\* clean the response, decode it
Synthesize ==
    /\ mainPc = "synth"
    /\ synthCount' = synthCount + 1
    /\ \/ /\ SynthFailed(Errorf("generate project spec", <<>>))
          /\ UNCHANGED <<spec, specResp>>
       \/ \E r \in SpecResponses :
            LET decoded == Unmarshal(CleanSpecResponse(r))
            IN  /\ specResp' = r
                /\ IF decoded.ok
                   THEN /\ spec' = decoded.spec
                        /\ mainPc' = "confirm"
                        /\ UNCHANGED reported
                   ELSE /\ SynthFailed(Errorf("parse project spec", <<>>))
                        /\ UNCHANGED spec
    /\ UNCHANGED <<requests, line, input, answer, confirm, genCount, projectDir,
                   filePaths, k, generatedFiles, resp, fileContent, fullPath, err,
                   pc, store, calls, writes, sanVars>>

\* anything but n taken for a confirmation
IsNotDeclined(c) == c # <<110>>

\* main.go:324: confirm == "y"
IsConfirmed(c) == c = LetterY

\* main.go:319-325: read the answer, trim and lower-case it, and call
\* GenerateCode when it is y; the records of the calls and writes of the
\* call start empty
Confirm ==
    /\ mainPc = "confirm"
    /\ \E a \in AnswerLines :
         /\ answer' = a
         /\ confirm' = TrimSpace(ToLower(a))
         /\ IF IsConfirmed(TrimSpace(ToLower(a)))
            THEN /\ mainPc' = "generate"
                 /\ genCount' = genCount + 1
                 /\ pc' = "start"
                 /\ err' = NoError
                 /\ calls' = <<>>
                 /\ writes' = <<>>
                 /\ resp' = <<>>
                 /\ fileContent' = <<>>
                 /\ fullPath' = <<>>
            ELSE /\ mainPc' = "read"
                 /\ UNCHANGED <<genCount, pc, err, calls, writes, resp, fileContent,
                                fullPath>>
    /\ UNCHANGED <<requests, line, input, specResp, synthCount, reported, spec,
                   projectDir, filePaths, k, generatedFiles, store, sanVars>>

\* main.go:325-332: GenerateCode has returned; its error, if any, is printed
\* and the loop goes back to the prompt
Return ==
    /\ mainPc = "generate"
    /\ pc = "done"
    /\ pc' = "idle"
    /\ reported' = err
    /\ mainPc' = "read"
    /\ UNCHANGED <<requests, line, input, specResp, answer, confirm, synthCount,
                   genCount, spec, projectDir, filePaths, k, generatedFiles, resp,
                   fileContent, fullPath, err, store, calls, writes, sanVars>>

\* the program after NewDevAgent, at the first prompt, on an empty file system
InitMain ==
    /\ spec = SpecZero
    /\ pc = "idle"
    /\ projectDir = <<>>
    /\ filePaths = <<>>
    /\ k = 0
    /\ generatedFiles = EmptyMap
    /\ resp = <<>>
    /\ fileContent = <<>>
    /\ fullPath = <<>>
    /\ err = NoError
    /\ store = EmptyMap
    /\ calls = <<>>
    /\ writes = <<>>
    /\ sanIn = <<>>
    /\ sanOnce = <<>>
    /\ sanTwice = <<>>
    /\ sanCount = 0
    /\ mainPc = "read"
    /\ requests = 0
    /\ line = <<>>
    /\ input = <<>>
    /\ specResp = <<>>
    /\ answer = <<>>
    /\ confirm = <<>>
    /\ synthCount = 0
    /\ genCount = 0
    /\ reported = NoError

NextMain ==
    \/ ReadLine
    \/ Synthesize
    \/ Confirm
    \/ Return
    \/ Start
    \/ GenerateFile
    \/ PrepareFile
    \/ WriteFileStep
    \/ GenerateReadme
    \/ WriteReadme

SpecMain == InitMain /\ [][NextMain]_vars

----------------------------------------------------------------------------
(* Vocabulary of the properties *)

\* the artifact paths of the run
Keys == DOMAIN spec.Files

\* the 1-based position of path p in ascending lexicographic order
Rank(p) == Cardinality({q \in Keys : StrLess(q, p)}) + 1

\* the first n paths in ascending lexicographic order
FirstKeys(n) == {p \in Keys : Rank(p) <= n}

\* the per-file service calls, the README service calls, the per-file writes
CodeCalls == SelectSeq(calls, LAMBDA c : c.kind = "code")
ReadmeCalls == SelectSeq(calls, LAMBDA c : c.kind = "readme")
FileWrites == SelectSeq(writes, LAMBDA w : w.kind = "file")

\* the paths of a log are strictly ascending
AscendingPaths(log) ==
    \A x, y \in 1..Len(log) : x < y => StrLess(log[x].path, log[y].path)

\* the paths a log names
PathsOf(log) == {log[j].path : j \in 1..Len(log)}

\* path p was answered, and the sanitized body of that answer
Answered(p) == \E j \in 1..Len(calls) : calls[j].kind = "code" /\ calls[j].path = p /\ calls[j].ok
BodyOf(p) ==
    LET j == CHOOSE x \in 1..Len(calls) :
                 calls[x].kind = "code" /\ calls[x].path = p /\ calls[x].ok
    IN  SanitizeCode(calls[j].content)

\* path p was written successfully
Written(p) == \E j \in 1..Len(writes) : writes[j].kind = "file" /\ writes[j].path = p /\ writes[j].ok

\* where the artifact with key p is stored
StoredAt(p) == Join(ProjectName, p)

\* the loop over the files has run to its end
LoopCompleted ==
    \/ pc = "loop" /\ k > Len(filePaths)
    \/ pc = "readme"
    \/ pc = "done" /\ err.kind \in {"nil", "generate README", "write README"}

----------------------------------------------------------------------------
(* Properties *)

\* C1: the per-file calls and the per-file writes are issued in strictly
\* ascending lexicographic order of path, and once the loop has run to its end
\* without a failure there have been exactly N calls and exactly N writes,
\* one per artifact path, N being the number of paths of the ProjectSpec.
C1_CallsAndWritesInOrder ==
    /\ AscendingPaths(CodeCalls)
    /\ AscendingPaths(FileWrites)
    /\ LoopCompleted =>
         /\ Len(CodeCalls) = Cardinality(Keys)
         /\ Len(FileWrites) = Cardinality(Keys)
         /\ PathsOf(CodeCalls) = Keys
         /\ PathsOf(FileWrites) = Keys
         /\ \A j \in 1..Len(CodeCalls) : CodeCalls[j].ok /\ Rank(CodeCalls[j].path) = j
         /\ \A j \in 1..Len(FileWrites) : FileWrites[j].ok /\ Rank(FileWrites[j].path) = j

\* C1 witness: a run over three paths, README.md and a.txt among them, has
\* finished its loop
C1_Witness ==
    /\ LoopCompleted
    /\ Cardinality(Keys) = 3
    /\ {PathReadme, PathA} \subseteq Keys
    /\ Len(FileWrites) = 3

\* C2: when the service call for the artifact at sorted index i fails,
\* GenerateCode has returned an error naming that path, the store holds
\* exactly the i-1 artifacts before it with their sanitized bodies, the failed
\* call is the last service call, nothing at index >= i was written and no
\* summary was requested.
C2_ServiceFailureStops ==
    \A j \in 1..Len(calls) :
        (calls[j].kind = "code" /\ ~calls[j].ok) =>
            LET p == calls[j].path
                i == Rank(p)
            IN  /\ pc = "done"
                /\ err = Errorf("generate code", p)
                /\ j = Len(calls)
                /\ j = i
                /\ Len(ReadmeCalls) = 0
                /\ Len(writes) = i - 1
                /\ PathsOf(FileWrites) = FirstKeys(i - 1)
                /\ DOMAIN store = {StoredAt(q) : q \in FirstKeys(i - 1)}
                /\ Cardinality(DOMAIN store) = i - 1
                /\ \A q \in FirstKeys(i - 1) : store[StoredAt(q)] = BodyOf(q)

\* C2 witness: the call for the third path of three has failed
C2_Witness ==
    /\ Cardinality(Keys) = 3
    /\ Len(calls) = 3
    /\ ~calls[3].ok
    /\ Cardinality(DOMAIN store) = 2

\* C3: there is at most one README call; when there is one, every one of the
\* N artifacts has been answered and written before it, it is the last call,
\* and its prompt holds every artifact's path with its sanitized body.
C3_SummaryOnceAfterAll ==
    /\ Len(ReadmeCalls) <= 1
    /\ \A j \in 1..Len(calls) :
         calls[j].kind = "readme" =>
            /\ j = Len(calls)
            /\ j = Cardinality(Keys) + 1
            /\ \A p \in Keys :
                 /\ Answered(p)
                 /\ Written(p)
                 /\ \E e \in 1..Len(calls[j].prompt.structure) :
                      /\ calls[j].prompt.structure[e].path = p
                      /\ calls[j].prompt.structure[e].content = BodyOf(p)

\* C3 witness: the README was requested for a project of three artifacts
C3_Witness ==
    /\ Len(ReadmeCalls) = 1
    /\ Cardinality(Keys) = 3

\* the number of artifacts whose generation has completed: answered,
\* sanitized and written
Completed == Cardinality({p \in Keys : Written(p)})

\* C4 (state part): while GenerateCode runs, the context holds exactly the
\* first n artifacts in sort order, n being the number of artifacts completed
\* so far, each mapped to the sanitized body of its response, which is also
\* the body on the store; when a run has aborted the context is still a
\* prefix of the sort order with the sanitized bodies.
C4_ContextIsPrefix ==
    /\ pc \in {"loop", "sanitize", "write", "readme"} =>
         /\ DOMAIN generatedFiles = FirstKeys(Completed)
         /\ Cardinality(DOMAIN generatedFiles) = Completed
         /\ \A p \in DOMAIN generatedFiles : store[StoredAt(p)] = generatedFiles[p]
    /\ \E n \in 0..Cardinality(Keys) : DOMAIN generatedFiles = FirstKeys(n)
    /\ \A p \in DOMAIN generatedFiles : Answered(p) /\ generatedFiles[p] = BodyOf(p)

\* C4 (step part): no step removes or changes an entry of the context
C4_ContextOnlyGrows ==
    \A p \in DOMAIN generatedFiles :
        p \in DOMAIN generatedFiles' /\ generatedFiles'[p] = generatedFiles[p]

\* C4: context monotonicity. After the n-th artifact in sorted order has been
\* generated the context holds exactly the first n artifacts in sort order,
\* each with its final sanitized body, and the context only grows: no entry is
\* ever removed or changed during a run.
C4_ContextMonotone == []C4_ContextIsPrefix /\ [][C4_ContextOnlyGrows]_vars

\* C4 witness: two artifacts are completed, the third is being generated, and
\* one of the bodies differs from the raw response it came from
C4_Witness ==
    /\ pc = "sanitize"
    /\ Completed = 2
    /\ Cardinality(DOMAIN generatedFiles) = 2
    /\ \E p \in DOMAIN generatedFiles : generatedFiles[p] = WordBody

\* C5: the prompt built for the artifact at sorted index i embeds the
\* sanitized bodies of exactly the artifacts at indices 1..i-1, once each, and
\* of no artifact at index >= i (so the prompt for b.txt holds the body made
\* for a.txt, and the prompt for a.txt holds nothing of b.txt).
C5_PromptEmbedsEarlierOnly ==
    \A j \in 1..Len(calls) :
        calls[j].kind = "code" =>
            LET ctx == calls[j].prompt.context
                i == Rank(calls[j].path)
            IN  /\ Len(ctx) = i - 1
                /\ {ctx[e].path : e \in 1..Len(ctx)} = FirstKeys(i - 1)
                /\ \A e \in 1..Len(ctx) : ctx[e].content = BodyOf(ctx[e].path)

\* C5 witness: for the artifacts a.txt and b.txt, the prompt for b.txt has
\* been built and holds the body y sanitized from the fenced response to a.txt
C5_Witness ==
    /\ Keys = {PathA, PathB}
    /\ Len(calls) = 2
    /\ calls[1].path = PathA
    /\ calls[1].content = Fenced(TagGo, WordBody)
    /\ calls[2].path = PathB
    /\ calls[2].prompt.context = <<[path |-> PathA, content |-> WordBody]>>

\* a key holds a parent-directory element
HasParentElem(p) == \E e \in 1..Len(SplitSlash(p)) : SplitSlash(p)[e] = DotDot

\* a path of the store lies under the project root
UnderProjectRoot(full) == HasPrefix(full, ProjectName \o <<47>>)

\* C6: a key holding a parent-directory element is rejected before any
\* service call is made for it, and nothing is ever written outside the
\* project root.
C6_ParentPathRejected ==
    /\ \A j \in 1..Len(calls) : calls[j].kind = "code" => ~HasParentElem(calls[j].path)
    /\ \A full \in DOMAIN store : UnderProjectRoot(full)

\* C7: the block of previously generated files of every per-file prompt, and
\* the structure block of the README prompt, list the files in ascending
\* path order, the order the generation loop established.
C7_ContextRenderedSorted ==
    \A j \in 1..Len(calls) :
        /\ calls[j].kind = "code" => AscendingPaths(calls[j].prompt.context)
        /\ calls[j].kind = "readme" => AscendingPaths(calls[j].prompt.structure)

\* C8: sanitizing the sanitized text changes nothing.
C8_SanitizeIdempotent == sanCount = 2 => sanTwice = sanOnce

\* C9: a response that is a fence opener tagged with a language, a newline, a
\* body without surrounding white space, a newline and a fence closer is
\* sanitized to exactly the body; the response of three backquotes, json, a
\* newline, {"a":1}, a newline and three backquotes gives {"a":1}.
C9_FencedRoundTrip ==
    sanCount >= 1 =>
        /\ sanIn = Fenced(TagJson, JsonBody) => sanOnce = JsonBody
        /\ \A tag \in FenceTags, body \in FenceBodies :
             sanIn = Fenced(tag, body) => sanOnce = body

\* C9 witness: the json example has been sanitized
C9_Witness == sanCount = 1 /\ sanIn = Fenced(TagJson, JsonBody)

\* C10: when the write of the artifact at sorted index i fails, or the
\* creation of its directories does, GenerateCode has returned an error naming
\* that path, the artifacts written for the indices 1..i-1 are on the store
\* with the bodies written, and the service call for that artifact is the last
\* one: none follows for a later artifact or for the summary.
C10_WriteFailureStops ==
    /\ \A j \in 1..Len(writes) :
         (writes[j].kind = "file" /\ ~writes[j].ok) =>
            LET p == writes[j].path
                i == Rank(p)
            IN  /\ pc = "done"
                /\ err = Errorf("write file", p)
                /\ j = Len(writes)
                /\ j = i
                /\ Len(calls) = i
                /\ calls[i].kind = "code" /\ calls[i].path = p
                /\ \A q \in FirstKeys(i - 1) :
                     Written(q) /\ store[StoredAt(q)] = BodyOf(q)
    /\ err.kind = "create directories" =>
         LET i == Rank(err.path)
         IN  /\ pc = "done"
             /\ err.path \in Keys
             /\ Len(writes) = i - 1
             /\ Len(calls) = i
             /\ calls[i].kind = "code" /\ calls[i].path = err.path
             /\ \A q \in FirstKeys(i - 1) :
                  Written(q) /\ store[StoredAt(q)] = BodyOf(q)

\* C10 witness: the write of the third artifact of three failed and left its
\* file truncated, the two before it being on the store
C10_Witness ==
    /\ Cardinality(Keys) = 3
    /\ Len(writes) = 3
    /\ ~writes[3].ok
    /\ Cardinality(DOMAIN store) = 3

\* the summary stage has failed: its service call or its write
SummaryFailed ==
    \/ \E j \in 1..Len(calls) : calls[j].kind = "readme" /\ ~calls[j].ok
    \/ \E j \in 1..Len(writes) : writes[j].kind = "readme" /\ ~writes[j].ok

\* C11: when the summary stage fails, in its service call or in the write of
\* the README, GenerateCode has returned an error and every one of the N
\* artifacts is on the store with the sanitized body generated for it.
C11_SummaryFailureKeepsArtifacts ==
    SummaryFailed =>
        /\ pc = "done"
        /\ err.kind \in {"generate README", "write README"}
        /\ \A p \in Keys :
             StoredAt(p) \in DOMAIN store /\ store[StoredAt(p)] = BodyOf(p)

\* C17: an artifact enters the accumulated context only after its sanitized
\* body has been persisted: in every state, the state in which a run has
\* aborted on a write failure included, every path of the context has been
\* written to the store with the body the context holds.
C17_ContextOnlyPersisted ==
    \A p \in DOMAIN generatedFiles :
        /\ Written(p)
        /\ StoredAt(p) \in DOMAIN store
        /\ pc # "done" => store[StoredAt(p)] = generatedFiles[p]

\* the successful per-file writes
FileWritesOk == SelectSeq(writes, LAMBDA w : w.kind = "file" /\ w.ok)

\* C18: artifacts are generated one at a time with no retry. When a service
\* call is issued every earlier call has been answered and its artifact
\* written, so that at most the last call is not yet followed by its write,
\* and no path receives more than one service call in a run.
C18_OneAtATimeNoRetry ==
    /\ \A x, y \in 1..Len(CodeCalls) : x # y => CodeCalls[x].path # CodeCalls[y].path
    /\ \A j \in 1..(Len(CodeCalls) - 1) :
         /\ CodeCalls[j].ok
         /\ j <= Len(FileWritesOk)
         /\ FileWritesOk[j].path = CodeCalls[j].path
    /\ Len(CodeCalls) <= Len(FileWritesOk) + 1
    /\ Len(writes) <= Len(calls)

\* C18 witness: the third service call of a run has been issued, the first
\* two artifacts being written
C18_Witness ==
    /\ Len(CodeCalls) = 3
    /\ Len(FileWritesOk) = 2
    /\ pc \in {"sanitize", "done"}

\* C20: after a fully successful run the store holds, for every artifact path
\* of the ProjectSpec, exactly the sanitized body generated for it; the README
\* written at the project root has overwritten none of them.
C20_ArtifactsIntactAfterRun ==
    (pc = "done" /\ err = NoError) =>
        \A p \in Keys :
            StoredAt(p) \in DOMAIN store /\ store[StoredAt(p)] = BodyOf(p)

\* C16: the per-file sanitizer trims the surrounding white space before it
\* strips the fence: the sanitized body of a fenced block preceded or followed
\* by white space neither starts nor ends with the fence marker.
C16_PaddedFenceStripped ==
    (sanCount >= 1 /\ sanIn \in PaddedExamples) =>
        /\ ~HasPrefix(sanOnce, Fence)
        /\ ~HasSuffix(sanOnce, Fence)

\* C12: GenerateProjectSpec returns a ProjectSpec only when the cleaned
\* response is a valid document, and never one with an empty name or without
\* artifacts: such a response ends in a parse error.
C12_SpecParseErrors ==
    /\ specResp \in {TextOops, DocEmpty} =>
         mainPc = "read" /\ reported = Errorf("parse project spec", <<>>)
    /\ mainPc \in {"confirm", "generate"} =>
         spec.Name # <<>> /\ DOMAIN spec.Files # {}

\* the raw answers that are an explicit yes: y, and Y between spaces
Affirmative == {AnswerLower, AnswerUpper}

\* C13: GenerateCode, and with it the per-file loop and the summary stage,
\* runs for a request only after the synthesis of that request succeeded and
\* the answer to the confirmation was an explicit yes; any other answer starts
\* nothing; and the line exit ends the loop without a service call.
C13_ConfirmationGates ==
    /\ (genCount > 0 \/ pc # "idle") =>
         /\ synthCount = 1
         /\ Unmarshal(CleanSpecResponse(specResp)).ok
         /\ spec = Unmarshal(CleanSpecResponse(specResp)).spec
         /\ answer \in Affirmative
    /\ (Len(calls) > 0 \/ Len(writes) > 0) /\ mainPc = "generate" => answer \in Affirmative
    /\ (answer # <<>> /\ answer \notin Affirmative) =>
         mainPc = "read" /\ genCount = 0 /\ pc = "idle"
    /\ line = LineExit =>
         mainPc = "exited" /\ synthCount = 0 /\ genCount = 0 /\ pc = "idle"
    /\ mainPc = "exited" => line = LineExit

\* C13 witness: after the answer Y the README of the request is being written
C13_Witness ==
    /\ mainPc = "generate"
    /\ answer = AnswerUpper
    /\ pc = "readme"
    /\ Len(calls) = 3

\* C14: the loop of main never retries. Each line leads to at most one
\* synthesis call and at most one GenerateCode call; a failed synthesis or a
\* failed GenerateCode is reported and the loop is back at its prompt.
C14_NoAutoRetry ==
    /\ synthCount <= 1
    /\ genCount <= 1
    /\ reported.kind \in {"generate project spec", "parse project spec"} =>
         mainPc = "read" /\ synthCount = 1 /\ genCount = 0 /\ pc = "idle"
    /\ (mainPc = "generate" /\ pc = "done") => genCount = 1 /\ reported = NoError
    /\ (mainPc = "read" /\ genCount = 1) => reported = err /\ pc = "idle"

\* C14 witness: GenerateCode failed on a service call, the error was reported
\* and the loop is back at its prompt
C14_Witness ==
    /\ mainPc = "read"
    /\ requests = 1
    /\ genCount = 1
    /\ reported.kind = "generate code"

\* C15: a valid specification document in a fence, tagged json or untagged,
\* is stripped of the fence and parsed: the synthesis succeeds with the
\* specification the document holds.
C15_FencedSpecParsed ==
    specResp \in {FencedJson(DocFull), FencedPlain(DocFull)} =>
        /\ reported.kind # "parse project spec"
        /\ spec = SpecFull

\* C19: every GenerateCode call starts from an empty context and its prompts
\* hold only what the same call generated: each entry of a prompt's block of
\* earlier files is a path answered earlier in the same call with the body
\* sanitized from that answer, also after earlier calls, aborted ones included.
C19_NoContextAcrossRuns ==
    /\ (pc = "loop" /\ Len(calls) = 0) => generatedFiles = EmptyMap
    /\ \A j \in 1..Len(calls) :
         LET block == IF calls[j].kind = "code" THEN calls[j].prompt.context
                      ELSE calls[j].prompt.structure
         IN  \A e \in 1..Len(block) :
               \E x \in 1..(j - 1) :
                 /\ calls[x].kind = "code"
                 /\ calls[x].ok
                 /\ calls[x].path = block[e].path
                 /\ SanitizeCode(calls[x].content) = block[e].content

\* C19 witness: a second GenerateCode call has issued its first service call
\* while the store holds the one file an earlier, aborted call left
C19_Witness ==
    /\ requests = 2
    /\ mainPc = "generate"
    /\ Len(calls) = 1
    /\ Len(writes) = 0
    /\ Cardinality(DOMAIN store) = 1

====
